---- MODULE Spec2Model ----
(***************************************************************************)
(* Model of signalprocessing.rs: the maximum length sequence generator     *)
(* (src/signals/maximum_length_sequence.rs), the periodic signal           *)
(* (src/signals/periodic_signal.rs), the zero padded signal                *)
(* (src/signals/zero_padded_signal.rs) and autocorrelation                 *)
(* (src/algorithms.rs).  Vectors are sequences; a Rust index i is the TLA+ *)
(* index i+1.  The numeric type T is the integers; the f64 arithmetic of   *)
(* autocorrelation rounds as IEEE 754 does, to a shorter significand.      *)
(***************************************************************************)
EXTENDS Integers, Sequences, FiniteSets, TLC

(* ---------------------------------------------------------------- bounds *)
\* longest coefficient / state vector handed to MaximumLengthSequence::new
MaxM == 3
\* most next() calls made on one generator
MaxCalls == 7
\* most set_vals() calls made on one generator
MaxSetVals == 1
\* longest buffer handed to PeriodicSignal::new directly
MaxPLen == 4
\* PeriodicSignal::get is called with indices in -MaxPIdx..MaxPIdx,
\* to_vector with start and end in -2..MaxPLen
MaxPIdx == 9

\* longest prefix handed to ZeroPaddedSignal::new
MaxZLen == 2
\* ZeroPaddedSignal::set is called with indices in 0..MaxZIdx, get with
\* indices in -(MaxZIdx+2)..(MaxZIdx+2), to_vector with start and end in
\* -1..(MaxZIdx+1)
MaxZIdx == 3
\* most coefficients handed to linear_prediction
MaxP == 2

\* bits of the significand the model's f64 keeps (an f64 keeps 53)
MantissaBits == 3

\* the highest order new_predefined has a polynom for
MaxOrder == 10

\* output symbols handed to set_vals
ValPairs == {<<-5, 5>>, <<5, 5>>}
\* sample values of the buffers handed to PeriodicSignal::new
PVals == {0, 1, 2}
\* sample values of T in the zero padded signal and its coefficients
ZVals == {-1, 0, 2}

BoolSeqs(n) == [1..n -> BOOLEAN]
BoolSeqsUpTo(n) == UNION {BoolSeqs(k) : k \in 0..n}
AllTrue(n) == [k \in 1..n |-> TRUE]
SeqsUpTo(S, n) == UNION {[1..k -> S] : k \in 0..n}

VARIABLES
  mls,           \* "none" | "live" | "panic" | "moved": the generator's life cycle
  coefficients,  \* MaximumLengthSequence.coefficients
  state,         \* MaximumLengthSequence.state
  val_false,     \* MaximumLengthSequence.val_false
  val_true,      \* MaximumLengthSequence.val_true
  init_state,    \* the state handed to the constructor
  ctor,          \* the constructor call made: the function, its order
                 \* argument (0 for new), and the coefficients and the state
                 \* that reached new
  calls,         \* number of next() calls made so far
  nsets,         \* number of set_vals() calls made so far
  out,           \* the values returned by the next() calls, in order
  vec,           \* the vector returned by to_vector()
  ps,            \* "none" | "live" | "moved": the periodic signal's life cycle
  pvalues,       \* PeriodicSignal.values
  pop,           \* the last PeriodicSignal method called and how it ended
  parg,          \* its argument: idx, or <<start, end>>
  pret,          \* what it returned: a value, a vector, or the values of
                 \* the signal autocorrelation returned
  zs,            \* "none" | "live": the zero padded signal's life cycle
  zvalues,       \* ZeroPaddedSignal.values
  zprev,         \* ZeroPaddedSignal.values before the last method called
  zop,           \* the last ZeroPaddedSignal method called
  zarg,          \* its argument: idx, the coefficients, or <<start, end>>
  zval,          \* the val handed to set (0 for the other methods)
  zret           \* what it returned: a value, or the new signal's values
                 \* (0 for set)

mlsvars == <<mls, coefficients, state, val_false, val_true, init_state, ctor,
             calls, nsets, out, vec>>
psvars == <<ps, pvalues, pop, parg, pret>>
zvars == <<zs, zvalues, zprev, zop, zarg, zval, zret>>
vars == <<mlsvars, psvars, zvars>>

(* ------------------------------------------- MaximumLengthSequence (pure) *)

\* the loop of next_state that folds the tapped bits into `first`
RECURSIVE first_loop(_, _, _, _)
first_loop(st, co, i, first) ==
  IF i >= Len(st) - 1 THEN first
  ELSE first_loop(st, co, i + 1,
                  IF co[i + 1] THEN (first # st[Len(st) - (i + 2) + 1]) ELSE first)

\* next_state with the taps read one place too far to the right
RECURSIVE first_loop_tap_off(_, _, _, _)
first_loop_tap_off(st, co, i, first) ==
  IF i >= Len(st) - 1 THEN first
  ELSE first_loop_tap_off(st, co, i + 1,
                          IF co[i + 1] THEN (first # st[Len(st) - (i + 1) + 1])
                          ELSE first)

next_state_tap_off(st, co) ==
  LET first == first_loop_tap_off(st, co, 0, st[Len(st)])
  IN  <<first>> \o [i \in 1..(Len(st) - 1) |-> st[i]]

\* next_state shifting every old value through, the last one included
next_state_keeps_last(st, co) ==
  LET first == first_loop(st, co, 0, st[Len(st)])
  IN  <<first>> \o st

\* fn next_state(state, coefficients)
next_state(st, co) ==
  LET first == first_loop(st, co, 0, st[Len(st)])
  IN  <<first>> \o [i \in 1..(Len(st) - 1) |-> st[i]]

\* the value next() and to_vector() emit for a state
output_of(st, vf, vt) == IF st[Len(st)] THEN vt ELSE vf

\* fn next(&mut self): the value returned and the state it leaves
next(st, co, vf, vt) ==
  [x |-> output_of(st, vf, vt), state |-> next_state(st, co)]

\* the loop body of to_vector without the step of the local state
to_vector_body_stale(s, co, vf, vt) ==
  [state |-> s.state,
   x     |-> Append(s.x, output_of(s.state, vf, vt))]

\* one iteration of the loop of to_vector: push the value, step the local state
to_vector_body(s, co, vf, vt) ==
  [state |-> next_state(s.state, co),
   x     |-> Append(s.x, output_of(s.state, vf, vt))]

\* n iterations of the loop of to_vector from loop state s.  The iterations
\* are run first half, then second half; the test on t makes the first half
\* be evaluated before the second is started (it always holds).
RECURSIVE to_vector_loop(_, _, _, _, _)
to_vector_loop(n, s, co, vf, vt) ==
  IF n = 0 THEN s
  ELSE IF n = 1 THEN to_vector_body(s, co, vf, vt)
  ELSE LET h == n \div 2
           t == to_vector_loop(h, s, co, vf, vt)
       IN  IF Len(t.x) = Len(s.x) + h
           THEN to_vector_loop(n - h, t, co, vf, vt)
           ELSE t

\* to_vector running 2^m iterations instead of 2^m-1
to_vector_pow2(st, co, vf, vt) ==
  to_vector_loop(2 ^ Len(st), [state |-> st, x |-> <<>>], co, vf, vt).x

\* fn to_vector(self): the vector returned
to_vector(st, co, vf, vt) ==
  to_vector_loop(2 ^ Len(st) - 1, [state |-> st, x |-> <<>>], co, vf, vt).x

\* new_predefined with the polynom x^m + 1 for every order
predefined_no_tap(order) == [i \in 1..(order - 1) |-> FALSE]

\* new_predefined with the polynom x^m + x + 1 for every order
predefined_first_tap(order) == [i \in 1..(order - 1) |-> i = 1]

\* the match of new_predefined: the coefficients of the polynom of an order
predefined(order) ==
  CASE order = 1 -> <<>>
    [] order = 2 -> <<TRUE>>
    [] order = 3 -> <<TRUE, FALSE>>
    [] order = 4 -> <<TRUE, FALSE, FALSE>>
    [] order = 5 -> <<FALSE, TRUE, FALSE, FALSE>>
    [] order = 6 -> <<TRUE, FALSE, FALSE, FALSE, FALSE>>
    [] order = 7 -> <<TRUE, FALSE, FALSE, FALSE, FALSE, FALSE>>
    [] order = 8 -> <<TRUE, FALSE, FALSE, FALSE, TRUE, TRUE, FALSE>>
    [] order = 9 -> <<FALSE, FALSE, FALSE, TRUE, FALSE, FALSE, FALSE, FALSE>>
    [] order = 10 -> <<FALSE, FALSE, TRUE, FALSE, FALSE, FALSE, FALSE, FALSE, FALSE>>

(* -------------------------------------------------- PeriodicSignal (pure) *)

\* Vec::get(idx): Some(v) is <<v>>, None is <<>>
VecGet(values, idx) == IF idx < Len(values) THEN <<values[idx + 1]>> ELSE <<>>

\* the first loop of get mirroring a negative index: the even signal
\* a[-k] = a[k]
ps_while_negative_mirror(idx, len) ==
  [hang |-> FALSE, idx |-> IF idx < 0 THEN -idx ELSE idx]

\* while idx < 0 { idx += len }: the index it ends with; hang when an
\* iteration leaves idx as it was, so that the loop never ends
RECURSIVE ps_while_negative(_, _)
ps_while_negative(idx, len) ==
  IF idx < 0
  THEN IF idx + len = idx
       THEN [hang |-> TRUE, idx |-> idx]
       ELSE ps_while_negative(idx + len, len)
  ELSE [hang |-> FALSE, idx |-> idx]

\* the second loop of get with `while idx > len`
RECURSIVE ps_while_beyond_gt(_, _)
ps_while_beyond_gt(idx, len) ==
  IF idx > len
  THEN IF idx - len = idx
       THEN [hang |-> TRUE, idx |-> idx]
       ELSE ps_while_beyond_gt(idx - len, len)
  ELSE [hang |-> FALSE, idx |-> idx]

\* while idx >= len { idx -= len }, likewise
RECURSIVE ps_while_beyond(_, _)
ps_while_beyond(idx, len) ==
  IF idx >= len
  THEN IF idx - len = idx
       THEN [hang |-> TRUE, idx |-> idx]
       ELSE ps_while_beyond(idx - len, len)
  ELSE [hang |-> FALSE, idx |-> idx]

\* fn get(&self, idx): the value returned; hang when it never returns
ps_get(values, idx) ==
  LET i1 == ps_while_negative(idx, Len(values)) IN
  IF i1.hang THEN [hang |-> TRUE, v |-> 0]
  ELSE LET i2 == ps_while_beyond(i1.idx, Len(values)) IN
       IF i2.hang THEN [hang |-> TRUE, v |-> 0]
       ELSE LET v == VecGet(values, i2.idx) IN
            [hang |-> FALSE, v |-> IF v # <<>> THEN v[1] ELSE 0]

\* the loop of to_vector: `for i in start..(end+1) { x.push(self.get(i)) }`,
\* i the loop variable; hang when a get never returns
RECURSIVE ps_to_vector_loop(_, _, _, _)
ps_to_vector_loop(values, i, end, x) ==
  IF i >= end + 1 THEN [hang |-> FALSE, x |-> x]
  ELSE LET r == ps_get(values, i)
       IN  IF r.hang THEN [hang |-> TRUE, x |-> x]
           ELSE ps_to_vector_loop(values, i + 1, end, Append(x, r.v))

\* fn to_vector(&self, start, end)
ps_to_vector(values, start, end) == ps_to_vector_loop(values, start, end, <<>>)

\* the while loop of period() over the windows number lo..hi (window k is
\* values[k*period .. (k+1)*period)): TRUE when one differs from the first
\* window, which is where the loop sets failed and breaks (lower half first)
RECURSIVE period_failed(_, _, _, _)
period_failed(values, period, lo, hi) ==
  IF lo > hi THEN FALSE
  ELSE IF lo = hi
       THEN SubSeq(values, 1, period)
              # SubSeq(values, lo * period + 1, lo * period + period)
       ELSE LET mid == (lo + hi) \div 2
            IN  IF period_failed(values, period, lo, mid) THEN TRUE
                ELSE period_failed(values, period, mid + 1, hi)

\* period() with `while offset < size - period`: the last window is not compared
period_found_strict(values, period) ==
  IF Len(values) % period # 0 THEN FALSE
  ELSE ~period_failed(values, period, 1, (Len(values) - period - 1) \div period)

\* period() without the `size % period != 0 { continue }` test
period_found_no_divides(values, period) ==
  ~period_failed(values, period, 1, (Len(values) - period) \div period)

\* the body of the for loop of period() for one candidate: TRUE when it
\* returns the candidate.  offset runs over period, 2*period, ... while
\* offset <= size - period
period_found(values, period) ==
  IF Len(values) % period # 0 THEN FALSE
  ELSE ~period_failed(values, period, 1, (Len(values) - period) \div period)

\* the for loop of period() over the candidates lo..hi, ascending: the first
\* candidate it returns, 0 when it runs through (lower half first, upper half
\* only when the lower half returned nothing)
RECURSIVE period_for(_, _, _)
period_for(values, lo, hi) ==
  IF lo > hi THEN 0
  ELSE IF lo = hi THEN (IF period_found(values, lo) THEN lo ELSE 0)
  ELSE LET mid == (lo + hi) \div 2
           r == period_for(values, lo, mid)
       IN  IF r # 0 THEN r ELSE period_for(values, mid + 1, hi)

\* fn period(&self)
period(values) ==
  LET r == period_for(values, 1, Len(values) - 1)
  IN  IF r # 0 THEN r ELSE Len(values)

(* ----------------------------------------------------------- f64 (pure) *)
\* An f64 is modelled by its value.  The operands and the results of + and *
\* in autocorrelation are integers here; a quotient is the record
\* [m, e], the value m * 2^e with m odd (or m = e = 0).  Every operation
\* rounds its exact result to MantissaBits significant bits, to nearest,
\* ties to even, as IEEE 754 does with 53; the exponent is not bounded.

\* the number of bits of a natural number
RECURSIVE Bits(_)
Bits(x) == IF x = 0 THEN 0 ELSE 1 + Bits(x \div 2)

Abs(x) == IF x < 0 THEN -x ELSE x
Sign(x) == IF x < 0 THEN -1 ELSE 1

\* the natural number t (with bits below it when sticky) cut to
\* MantissaBits bits: [q, sh] for the value q * 2^sh
RoundBits(t, sticky) ==
  LET b == Bits(t) IN
  IF b <= MantissaBits THEN [q |-> t, sh |-> 0]
  ELSE LET sh == b - MantissaBits
           q == t \div (2 ^ sh)
           r == t % (2 ^ sh)
           half == 2 ^ (sh - 1)
           up == r > half \/ (r = half /\ (sticky \/ q % 2 = 1))
       IN  [q |-> IF up THEN q + 1 ELSE q, sh |-> sh]

\* the f64 nearest to the integer x
RoundInt(x) ==
  LET c == RoundBits(Abs(x), FALSE)
  IN  Sign(x) * c.q * (2 ^ c.sh)

\* f64 multiplication and addition (of integer values)
Fmul(a, b) == RoundInt(a * b)
Fadd(a, b) == RoundInt(a + b)

\* m * 2^e with the factors two taken out of m
RECURSIVE Normalize(_, _)
Normalize(m, e) ==
  IF m = 0 THEN [m |-> 0, e |-> 0]
  ELSE IF m % 2 = 0 THEN Normalize(m \div 2, e + 1)
  ELSE [m |-> m, e |-> e]

\* f64 division of the integer value a by the positive integer value d
Fdiv(a, d) ==
  LET k == MantissaBits + 2 + Bits(d)
      t == (Abs(a) * (2 ^ k)) \div d
      sticky == (Abs(a) * (2 ^ k)) % d # 0
      c == RoundBits(t, sticky)
  IN  Normalize(Sign(a) * c.q, c.sh - k)

(* -------------------------------------------------- autocorrelation (pure) *)

\* the inner loop running over i in 1..size
RECURSIVE ac_inner_from_one(_, _, _, _)
ac_inner_from_one(values, k, i, val) ==
  LET j == IF i = 0 THEN 1 ELSE i IN
  IF j >= Len(values) THEN val
  ELSE ac_inner_from_one(values, k, j + 1,
                         Fadd(val, Fmul(ps_get(values, j).v,
                                        ps_get(values, j + k).v)))

\* the inner loop of autocorrelation: `for i in 0..sig.size() { val +=
\* sig.get(i)*sig.get(i+k) }`, from i on
RECURSIVE ac_inner(_, _, _, _)
ac_inner(values, k, i, val) ==
  IF i >= Len(values) THEN val
  ELSE ac_inner(values, k, i + 1,
                Fadd(val, Fmul(ps_get(values, i).v, ps_get(values, i + k).v)))

\* the outer loop pushing val without the division
RECURSIVE ac_outer_sum(_, _, _)
ac_outer_sum(values, k, vals) ==
  IF k >= Len(values) THEN vals
  ELSE ac_outer_sum(values, k + 1,
                    Append(vals, Normalize(ac_inner(values, k, 0, 0), 0)))

\* the outer loop: `for k in 0..sig.size() { ...; vals.push(val/size) }`,
\* from k on
RECURSIVE ac_outer(_, _, _)
ac_outer(values, k, vals) ==
  IF k >= Len(values) THEN vals
  ELSE ac_outer(values, k + 1,
                Append(vals, Fdiv(ac_inner(values, k, 0, 0),
                                  RoundInt(Len(values)))))

\* fn autocorrelation(sig): the values of the signal returned
autocorrelation(values) == ac_outer(values, 0, <<>>)

(* ------------------------------------------------ ZeroPaddedSignal (pure) *)

\* get reading one element too far
zps_get_off(values, idx) ==
  IF idx < 0 THEN 0
  ELSE LET v == VecGet(values, idx + 1)
       IN  IF v # <<>> THEN v[1] ELSE 0

\* fn get(&self, idx)
zps_get(values, idx) ==
  IF idx < 0 THEN 0
  ELSE LET v == VecGet(values, idx)
       IN  IF v # <<>> THEN v[1] ELSE 0

\* the loop of set: `for _ in self.size()..(idx+1) { push(zero) }`, i the
\* loop variable
RECURSIVE set_fill(_, _, _)
set_fill(values, i, end) ==
  IF i >= end THEN values ELSE set_fill(Append(values, 0), i + 1, end)

\* set filling the gap with val instead of zero
RECURSIVE set_fill_val(_, _, _, _)
set_fill_val(values, i, end, val) ==
  IF i >= end THEN values ELSE set_fill_val(Append(values, val), i + 1, end, val)

zps_set_fill_val(values, idx, val) ==
  LET filled == set_fill_val(values, Len(values), idx + 1, val)
  IN  [filled EXCEPT ![idx + 1] = val]

\* set adding val to the value at idx instead of storing it
zps_set_accumulate(values, idx, val) ==
  LET filled == set_fill(values, Len(values), idx + 1)
  IN  [filled EXCEPT ![idx + 1] = @ + val]

\* set resizing the prefix to idx+1 values
zps_set_resize(values, idx, val) ==
  LET filled == IF Len(values) > idx + 1 THEN SubSeq(values, 1, idx + 1)
                ELSE set_fill(values, Len(values), idx + 1)
  IN  [filled EXCEPT ![idx + 1] = val]

\* fn set(&mut self, idx, val): the values it leaves
zps_set(values, idx, val) ==
  LET filled == set_fill(values, Len(values), idx + 1)
  IN  [filled EXCEPT ![idx + 1] = val]

\* the loop of to_vector: `for i in start..(end+1) { x.push(self.get(i)) }`,
\* i the loop variable
RECURSIVE zps_to_vector_loop(_, _, _, _)
zps_to_vector_loop(values, i, end, x) ==
  IF i >= end + 1 THEN x
  ELSE zps_to_vector_loop(values, i + 1, end, Append(x, zps_get(values, i)))

\* fn to_vector(&self, start, end)
zps_to_vector(values, start, end) == zps_to_vector_loop(values, start, end, <<>>)

\* the index in the old signal without the +1
lp_idx_no_delay(i, j) == i - j

\* `let idx = (i as isize) - ((j+1) as isize)`
lp_idx(i, j) == i - (j + 1)

\* the inner loop of linear_prediction over the coefficients, from j on
RECURSIVE lp_coefficients(_, _, _, _, _)
lp_coefficients(values, a, i, j, val) ==
  IF j >= Len(a) THEN val
  ELSE LET idx == lp_idx(i, j)
           v == VecGet(a, j)
       IN  lp_coefficients(values, a, i, j + 1,
                           IF v # <<>> THEN val + v[1] * zps_get(values, idx)
                           ELSE val)

\* the outer loop of linear_prediction over the new indices, from i on
RECURSIVE lp_indices(_, _, _, _, _)
lp_indices(values, a, i, size, vals) ==
  IF i >= size THEN vals
  ELSE lp_indices(values, a, i + 1, size,
                  Append(vals, lp_coefficients(values, a, i, 0, 0)))

\* linear_prediction cut to one value fewer than size() + a.len()
linear_prediction_short(values, a) ==
  lp_indices(values, a, 0, Len(values) + Len(a) - 1, <<>>)

\* fn linear_prediction(&self, a): the values of the signal returned
linear_prediction(values, a) ==
  lp_indices(values, a, 0, Len(values) + Len(a), <<>>)

(* ----------------------------------------- MaximumLengthSequence (actions) *)

\* new with a third assertion, that some bit of the state is set
MlsConstructNonZero(co, st) ==
  IF Len(st) > 0 /\ Len(co) + 1 = Len(st) /\ (\E i \in 1..Len(st) : st[i])
  THEN /\ mls' = "live"
       /\ coefficients' = co
       /\ state' = st
       /\ init_state' = st
       /\ val_false' = 0
       /\ val_true' = 1
       /\ UNCHANGED <<calls, nsets, out, vec>>
  ELSE /\ mls' = "panic"
       /\ UNCHANGED <<coefficients, state, init_state, val_false, val_true,
                      calls, nsets, out, vec>>

\* new without the assert_eq! on the two lengths
MlsConstructUnchecked(co, st) ==
  IF Len(st) > 0
  THEN /\ mls' = "live"
       /\ coefficients' = co
       /\ state' = st
       /\ init_state' = st
       /\ val_false' = 0
       /\ val_true' = 1
       /\ UNCHANGED <<calls, nsets, out, vec>>
  ELSE /\ mls' = "panic"
       /\ UNCHANGED <<coefficients, state, init_state, val_false, val_true,
                      calls, nsets, out, vec>>

\* fn new(coefficients, state): the two assertions, then the instance
MlsConstruct(co, st) ==
  IF Len(st) > 0 /\ Len(co) + 1 = Len(st)
  THEN /\ mls' = "live"
       /\ coefficients' = co
       /\ state' = st
       /\ init_state' = st
       /\ val_false' = 0
       /\ val_true' = 1
       /\ UNCHANGED <<calls, nsets, out, vec>>
  ELSE /\ mls' = "panic"
       /\ UNCHANGED <<coefficients, state, init_state, val_false, val_true,
                      calls, nsets, out, vec>>

New(co, st) ==
  /\ mls = "none"
  /\ MlsConstruct(co, st)
  /\ ctor' = [fn |-> "new", order |-> 0, coefficients |-> co, state |-> st]
  /\ UNCHANGED <<psvars, zvars>>

\* fn new_predefined(order, state)
NewPredefined(order, st) ==
  /\ mls = "none"
  /\ IF order \in 1..MaxOrder
     THEN /\ MlsConstruct(predefined(order), st)
          /\ ctor' = [fn |-> "new_predefined", order |-> order,
                      coefficients |-> predefined(order), state |-> st]
     ELSE /\ mls' = "panic"
          /\ ctor' = [fn |-> "new_predefined", order |-> order,
                      coefficients |-> <<>>, state |-> st]
          /\ UNCHANGED <<coefficients, state, init_state, val_false, val_true,
                         calls, nsets, out, vec>>
  /\ UNCHANGED <<psvars, zvars>>

\* set_vals with the two assignments crossed
SetValsCrossed(vf, vt) ==
  /\ mls = "live"
  /\ nsets < MaxSetVals
  /\ val_false' = vt
  /\ val_true' = vf
  /\ nsets' = nsets + 1
  /\ UNCHANGED <<mls, coefficients, state, init_state, ctor, calls, out, vec>>
  /\ UNCHANGED <<psvars, zvars>>

\* fn set_vals(&mut self, val_false, val_true)
SetVals(vf, vt) ==
  /\ mls = "live"
  /\ nsets < MaxSetVals
  /\ val_false' = vf
  /\ val_true' = vt
  /\ nsets' = nsets + 1
  /\ UNCHANGED <<mls, coefficients, state, init_state, ctor, calls, out, vec>>
  /\ UNCHANGED <<psvars, zvars>>

\* fn next(&mut self)
NextCall ==
  /\ mls = "live"
  /\ calls < MaxCalls
  /\ LET r == next(state, coefficients, val_false, val_true)
     IN  /\ state' = r.state
         /\ out' = Append(out, r.x)
  /\ calls' = calls + 1
  /\ UNCHANGED <<mls, coefficients, init_state, ctor, val_false, val_true, nsets,
                 vec>>
  /\ UNCHANGED <<psvars, zvars>>

\* fn to_vector(self): consumes the generator
ToVector ==
  /\ mls = "live"
  /\ vec' = to_vector(state, coefficients, val_false, val_true)
  /\ mls' = "moved"
  /\ UNCHANGED <<coefficients, state, init_state, ctor, val_false, val_true,
                 calls, nsets, out>>
  /\ UNCHANGED <<psvars, zvars>>

(* ------------------------------------------------ PeriodicSignal (actions) *)

\* fn new(values)
PsConstruct(values) ==
  /\ ps' = "live"
  /\ pvalues' = values
  /\ pop' = "new"
  /\ UNCHANGED <<parg, pret>>

PsNew(values) ==
  /\ ps = "none"
  /\ mls = "none"
  /\ PsConstruct(values)
  /\ UNCHANGED <<mlsvars, zvars>>

\* PeriodicSignal::new(x.to_vector()), as the tests of new_predefined do
PsFromVector ==
  /\ ps = "none"
  /\ mls = "moved"
  /\ PsConstruct(vec)
  /\ UNCHANGED <<mlsvars, zvars>>

\* fn get(&self, idx)
PsGet(idx) ==
  /\ ps = "live"
  /\ pop \notin {"get_hang", "to_vector_hang"}
  /\ LET r == ps_get(pvalues, idx)
     IN  IF r.hang
         THEN pop' = "get_hang" /\ pret' = 0
         ELSE pop' = "get" /\ pret' = r.v
  /\ parg' = idx
  /\ UNCHANGED <<ps, pvalues>>
  /\ UNCHANGED <<mlsvars, zvars>>

\* fn to_vector(&self, start, end)
PsToVector(start, end) ==
  /\ ps = "live"
  /\ pop \notin {"get_hang", "to_vector_hang"}
  /\ LET r == ps_to_vector(pvalues, start, end)
     IN  IF r.hang
         THEN pop' = "to_vector_hang" /\ pret' = 0
         ELSE pop' = "to_vector" /\ pret' = r.x
  /\ parg' = <<start, end>>
  /\ UNCHANGED <<ps, pvalues>>
  /\ UNCHANGED <<mlsvars, zvars>>

\* fn autocorrelation(sig): takes the signal by value, returns a new one
PsAutocorrelation ==
  /\ ps = "live"
  /\ pop \notin {"get_hang", "to_vector_hang"}
  /\ ps' = "moved"
  /\ pop' = "autocorrelation"
  /\ pret' = autocorrelation(pvalues)
  /\ parg' = 0
  /\ UNCHANGED pvalues
  /\ UNCHANGED <<mlsvars, zvars>>

\* fn period(&self)
PsPeriod ==
  /\ ps = "live"
  /\ pop \notin {"get_hang", "to_vector_hang"}
  /\ pop' = "period"
  /\ pret' = period(pvalues)
  /\ parg' = 0
  /\ UNCHANGED <<ps, pvalues>>
  /\ UNCHANGED <<mlsvars, zvars>>

(* ---------------------------------------------- ZeroPaddedSignal (actions) *)

\* fn new(values)
ZpsNew(values) ==
  /\ zs = "none"
  /\ zs' = "live"
  /\ zvalues' = values
  /\ zprev' = <<>>
  /\ zop' = "new"
  /\ UNCHANGED <<zarg, zval, zret>>
  /\ UNCHANGED <<mlsvars, psvars>>

\* fn get(&self, idx)
ZpsGet(idx) ==
  /\ zs = "live"
  /\ zop' = "get"
  /\ zarg' = idx
  /\ zret' = zps_get(zvalues, idx)
  /\ zprev' = zvalues
  /\ zval' = 0
  /\ UNCHANGED <<zs, zvalues>>
  /\ UNCHANGED <<mlsvars, psvars>>

\* fn set(&mut self, idx, val)
ZpsSet(idx, val) ==
  /\ zs = "live"
  /\ zop' = "set"
  /\ zarg' = idx
  /\ zval' = val
  /\ zvalues' = zps_set(zvalues, idx, val)
  /\ zprev' = zvalues
  /\ zret' = 0
  /\ UNCHANGED zs
  /\ UNCHANGED <<mlsvars, psvars>>

\* fn to_vector(&self, start, end)
ZpsToVector(start, end) ==
  /\ zs = "live"
  /\ zop' = "to_vector"
  /\ zarg' = <<start, end>>
  /\ zret' = zps_to_vector(zvalues, start, end)
  /\ zprev' = zvalues
  /\ zval' = 0
  /\ UNCHANGED <<zs, zvalues>>
  /\ UNCHANGED <<mlsvars, psvars>>

\* fn linear_prediction(&self, a)
ZpsLinearPrediction(a) ==
  /\ zs = "live"
  /\ zop' = "linear_prediction"
  /\ zarg' = a
  /\ zret' = linear_prediction(zvalues, a)
  /\ zprev' = zvalues
  /\ zval' = 0
  /\ UNCHANGED <<zs, zvalues>>
  /\ UNCHANGED <<mlsvars, psvars>>

(* ------------------------------------------------------- specifications *)

Init ==
  /\ mls = "none"
  /\ coefficients = <<>>
  /\ state = <<>>
  /\ init_state = <<>>
  /\ ctor = [fn |-> "none", order |-> 0, coefficients |-> <<>>, state |-> <<>>]
  /\ val_false = 0
  /\ val_true = 0
  /\ calls = 0
  /\ nsets = 0
  /\ out = <<>>
  /\ vec = <<>>
  /\ ps = "none"
  /\ pvalues = <<>>
  /\ pop = "none"
  /\ parg = 0
  /\ pret = 0
  /\ zs = "none"
  /\ zvalues = <<>>
  /\ zprev = <<>>
  /\ zop = "none"
  /\ zarg = 0
  /\ zval = 0
  /\ zret = 0

\* the orders handed to new_predefined, a u8: those it has a polynom for,
\* the one below, the one above, and the largest u8
PredefinedOrders == 0..(MaxOrder + 1) \cup {255}

\* the states handed to new_predefined(order, _)
PredefinedStates(order) == {AllTrue(order)} \cup BoolSeqsUpTo(MaxM)

\* a generator, its calls, and the periodic signal made of its vector
Next ==
  \/ \E co \in BoolSeqsUpTo(MaxM), st \in BoolSeqsUpTo(MaxM) : New(co, st)
  \/ \E order \in PredefinedOrders :
       \E st \in PredefinedStates(order) : NewPredefined(order, st)
  \/ \E p \in ValPairs : SetVals(p[1], p[2])
  \/ NextCall
  \/ ToVector
  \/ PsFromVector
  \/ PsPeriod

Spec == Init /\ [][Next]_vars

\* a predefined generator started in any state of its order, and its
\* next() calls
NextCycle ==
  \/ \E order \in 1..MaxOrder : \E st \in BoolSeqs(order) :
       NewPredefined(order, st)
  \/ NextCall

SpecCycle == Init /\ [][NextCycle]_vars

\* a periodic signal made of a buffer, and its calls
NextPS ==
  \/ \E values \in SeqsUpTo(PVals, MaxPLen) : PsNew(values)
  \/ \E idx \in (-MaxPIdx)..MaxPIdx : PsGet(idx)
  \/ \E start, end \in (-2)..MaxPLen : PsToVector(start, end)
  \/ PsPeriod
  \/ PsAutocorrelation

SpecPS == Init /\ [][NextPS]_vars

\* a zero padded signal made of a prefix, and its calls
NextZPS ==
  \/ \E values \in SeqsUpTo(ZVals, MaxZLen) : ZpsNew(values)
  \/ \E idx \in (-(MaxZIdx + 2))..(MaxZIdx + 2) : ZpsGet(idx)
  \/ \E idx \in 0..MaxZIdx, val \in ZVals : ZpsSet(idx, val)
  \/ \E start, end \in (-1)..(MaxZIdx + 1) : ZpsToVector(start, end)
  \/ \E a \in SeqsUpTo(ZVals, MaxP) : ZpsLinearPrediction(a)

SpecZPS == Init /\ [][NextZPS]_vars

(* ------------------------------------------------------------- claims *)

\* `for v in ... { x.next() }` of the tests: n successive next() calls on a
\* generator from loop state s, collecting the values returned (run in two
\* halves like to_vector_loop)
RECURSIVE next_calls(_, _, _, _, _)
next_calls(n, s, co, vf, vt) ==
  IF n = 0 THEN s
  ELSE IF n = 1
       THEN LET r == next(s.state, co, vf, vt)
            IN  [state |-> r.state, x |-> Append(s.x, r.x)]
       ELSE LET h == n \div 2
                t == next_calls(h, s, co, vf, vt)
            IN  IF Len(t.x) = Len(s.x) + h
                THEN next_calls(n - h, t, co, vf, vt)
                ELSE t

\* the values the first n next() calls return on a generator constructed
\* with coefficients co and state st and emitting vf / vt
FirstNext(n, st, co, vf, vt) ==
  next_calls(n, [state |-> st, x |-> <<>>], co, vf, vt).x

\* the exclusive or of a set of bits: whether an odd number of them is set
Odd(n) == n % 2 = 1

\* C1 (step): a next() call returns val_true when bit m-1 of the state before
\* the call is set and val_false otherwise, and leaves new_state[0] =
\* state[m-1] XOR (XOR of state[m-2-i] over the i with coefficients[i]) and
\* new_state[k] = state[k-1] for k in [1,m); nothing else of the generator moves.
C1_Step ==
  [][calls' = calls + 1 =>
       LET m == Len(state)
           taps == {i \in 0..(m - 2) : coefficients[i + 1] /\ state[(m - 2 - i) + 1]}
       IN  /\ out' = Append(out, IF state[(m - 1) + 1] THEN val_true ELSE val_false)
           /\ Len(state') = m
           /\ state'[1] = (state[(m - 1) + 1] # Odd(Cardinality(taps)))
           /\ \A k \in 1..(m - 1) : state'[k + 1] = state[(k - 1) + 1]
           /\ coefficients' = coefficients]_vars

\* C1 (example): with coefficients [true,false] and state [false,true,true]
\* the successive calls return 1,1,0,0,1,0,1.
C1_Example ==
  (/\ mls = "live"
   /\ coefficients = <<TRUE, FALSE>>
   /\ init_state = <<FALSE, TRUE, TRUE>>
   /\ nsets = 0
   /\ calls <= 7)
  => out = SubSeq(<<1, 1, 0, 0, 1, 0, 1>>, 1, calls)

\* C1: each next() call returns the symbol of bit m-1 of the state before the
\* call and advances the state by exactly one step of the shift register; for
\* coefficients [true,false] and state [false,true,true] seven calls return
\* 1,1,0,0,1,0,1.
C1_Next == C1_Step /\ []C1_Example

C1_Witness ==
  /\ mls = "live"
  /\ coefficients = <<TRUE, FALSE>>
  /\ init_state = <<FALSE, TRUE, TRUE>>
  /\ nsets = 0
  /\ calls = 7
  /\ out = <<1, 1, 0, 0, 1, 0, 1>>

\* C2: to_vector() on a freshly constructed generator returns, element by
\* element, the first 2^m-1 values successive next() calls return on an
\* identically constructed generator with the same output symbols, and it
\* leaves the generator's own state as it was.
C2_ToVectorIsNextRun ==
  /\ (mls = "moved" /\ calls = 0) =>
       /\ vec = FirstNext(2 ^ Len(init_state) - 1, init_state, coefficients,
                          val_false, val_true)
       /\ state = init_state
  /\ (mls = "live" /\ nsets = 0 /\ calls <= 2 ^ Len(init_state) - 1) =>
       out = SubSeq(to_vector(init_state, coefficients, val_false, val_true),
                    1, calls)

C2_Witness ==
  /\ mls = "moved"
  /\ calls = 0
  /\ nsets = 1
  /\ Len(init_state) = 3
  /\ vec = <<5, 5, -5, -5, 5, -5, 5>>

\* C3 as stated: whatever number of next() calls preceded it, to_vector()
\* returns the 2^m-1 values a freshly constructed generator would return.
C3_FromConstructionState ==
  mls = "moved" =>
    /\ Len(vec) = 2 ^ Len(init_state) - 1
    /\ vec = to_vector(init_state, coefficients, val_false, val_true)

\* C3 amended: to_vector() returns exactly 2^m-1 values sampled from a private
\* copy of the CURRENT state: after k next() calls it is the values the
\* next() calls number k+1 .. k+2^m-1 of a freshly constructed generator return.
C3_FromCurrentState ==
  mls = "moved" =>
    LET n == 2 ^ Len(init_state) - 1
    IN  /\ Len(vec) = n
        /\ vec = SubSeq(FirstNext(calls + n, init_state, coefficients,
                                  val_false, val_true),
                        calls + 1, calls + n)

C3_Witness ==
  /\ mls = "moved"
  /\ calls = 2
  /\ Len(vec) = 7
  /\ vec # to_vector(init_state, coefficients, val_false, val_true)

\* C4: for every order m in 1..10, new_predefined(m, all-true state)
\* .to_vector() has length 2^m-1 and PeriodicSignal::new of it has
\* period() = 2^m-1; no shorter shift maps the sequence onto itself (the two
\* output symbols being different, as the default 0 and 1 are).
C4_PredefinedPeriod ==
  \A m \in 1..MaxOrder :
    (/\ mls = "moved"
     /\ calls = 0
     /\ coefficients = predefined(m)
     /\ init_state = AllTrue(m)) =>
      /\ Len(vec) = 2 ^ m - 1
      /\ (ps = "live" /\ pop = "period" /\ val_false # val_true) =>
           /\ pvalues = vec
           /\ pret = 2 ^ m - 1
           /\ \A d \in 1..(2 ^ m - 2) :
                \E i \in 1..(2 ^ m - 1) :
                  vec[i] # vec[((i - 1 + d) % (2 ^ m - 1)) + 1]

C4_Witness ==
  /\ mls = "moved"
  /\ calls = 0
  /\ coefficients = predefined(10)
  /\ init_state = AllTrue(10)
  /\ pop = "period"
  /\ pret = 1023

\* the remainder of a division that truncates towards zero
Rem(a, n) == IF a >= 0 THEN a % n ELSE -((-a) % n)

\* C8: for a buffer of length n > 0 and every idx, get(idx) terminates and
\* returns buffer[((idx mod n) + n) mod n], so get(idx) = get(idx + k*n) for
\* every k; values [1,2,3,4]: get(1)=2, get(-1)=4, get(4)=1, get(400)=1,
\* get(-400)=1.
C8_GetWraps ==
  /\ (ps = "live" /\ Len(pvalues) > 0) =>
       /\ pop # "get_hang"
       /\ pop = "get" =>
            LET n == Len(pvalues)
            IN  /\ pret = pvalues[((Rem(parg, n) + n) % n) + 1]
                /\ \A k \in {-3, -2, -1, 1, 2, 3} :
                     LET r == ps_get(pvalues, parg + k * n)
                     IN  ~r.hang /\ r.v = pret
  /\ LET x1 == <<1, 2, 3, 4>>
     IN  /\ ps_get(x1, 1) = [hang |-> FALSE, v |-> 2]
         /\ ps_get(x1, -1) = [hang |-> FALSE, v |-> 4]
         /\ ps_get(x1, 4) = [hang |-> FALSE, v |-> 1]
         /\ ps_get(x1, 400) = [hang |-> FALSE, v |-> 1]
         /\ ps_get(x1, -400) = [hang |-> FALSE, v |-> 1]

C8_Witness ==
  /\ ps = "live"
  /\ pop = "get"
  /\ pvalues = <<0, 1, 2, 1>>
  /\ parg = -9
  /\ pret = 1

\* d is a period of the buffer that divides its length
IsDividingPeriod(values, d) ==
  /\ d > 0
  /\ Len(values) % d = 0
  /\ \A i \in 0..(Len(values) - 1) : values[i + 1] = values[(i % d) + 1]

\* C9: period() returns the smallest positive d that divides n = size() with
\* buffer[i] = buffer[i mod d] for every i in [0,n) (n when no proper divisor
\* qualifies), so the result divides size(); period([1,1,1,1]) = 1,
\* period([1,0,1,0]) = 2, period([1,0,1,1]) = 4.
C9_PeriodSmallestDivisor ==
  /\ (ps = "live" /\ pop = "period") =>
       /\ IsDividingPeriod(pvalues, pret)
       /\ \A d \in 1..(pret - 1) : ~IsDividingPeriod(pvalues, d)
  /\ period(<<1, 1, 1, 1>>) = 1
  /\ period(<<1, 0, 1, 0>>) = 2
  /\ period(<<1, 0, 1, 1>>) = 4

\* what C9 says of the buffers that are not empty (the empty one is C10's)
C9_OnNonEmpty ==
  (ps = "live" /\ pop = "period" /\ Len(pvalues) > 0) =>
    /\ IsDividingPeriod(pvalues, pret)
    /\ \A d \in 1..(pret - 1) : ~IsDividingPeriod(pvalues, d)

\* C10: a PeriodicSignal of length zero is rejected: n > 0 holds for every
\* signal in use, and neither the construction from an empty buffer nor a get
\* on one returns a value or runs forever.
C10_EmptyRejected ==
  /\ ps = "live" => Len(pvalues) > 0
  /\ pop # "get_hang"

\* the values the zero padded signal stands for at index i
ZeroPadded(values, i) == IF 0 <= i /\ i < Len(values) THEN values[i + 1] ELSE 0

\* C5: get(idx) is total: the stored element when 0 <= idx < size(), the
\* additive identity when idx < 0 or idx >= size(), for every signal, the
\* empty one included.
C5_GetTotal ==
  /\ zop = "get" =>
       /\ (0 <= zarg /\ zarg < Len(zvalues)) => zret = zvalues[zarg + 1]
       /\ (zarg < 0 \/ zarg >= Len(zvalues)) => zret = 0
       /\ zvalues = zprev
  /\ LET x1 == <<42, 7, 11>>
     IN  /\ <<zps_get(x1, -1), zps_get(x1, 0), zps_get(x1, 1), zps_get(x1, 2)>>
              = <<0, 42, 7, 11>>
         /\ <<zps_get(x1, 3), zps_get(x1, 100), zps_get(x1, -100)>> = <<0, 0, 0>>
         /\ zps_get(<<>>, 0) = 0

C5_Witness ==
  /\ zop = "get"
  /\ zvalues = <<-1, 2>>
  /\ zarg = 1
  /\ zret = 2

\* C6: set(idx, val) on a signal of size s leaves size() = max(s, idx+1),
\* get(idx) = val, the additive identity at every index in [s, idx) and every
\* other index below s unchanged; [42,7,11] -> set(0,5) -> [5,7,11] ->
\* set(5,12) -> [5,7,11,0,0,12] -> set(6,100) -> [5,7,11,0,0,12,100].
C6_SetFrame ==
  /\ zop = "set" =>
       LET s == Len(zprev)
       IN  /\ Len(zvalues) = IF s > zarg + 1 THEN s ELSE zarg + 1
           /\ zps_get(zvalues, zarg) = zval
           /\ zvalues[zarg + 1] = zval
           /\ \A i \in s..(zarg - 1) : zvalues[i + 1] = 0
           /\ \A i \in 0..(s - 1) : i # zarg => zvalues[i + 1] = zprev[i + 1]
  /\ LET x1 == zps_set(<<42, 7, 11>>, 0, 5)
         x2 == zps_set(x1, 5, 12)
         x3 == zps_set(x2, 6, 100)
     IN  /\ x1 = <<5, 7, 11>>
         /\ x2 = <<5, 7, 11, 0, 0, 12>>
         /\ x3 = <<5, 7, 11, 0, 0, 12, 100>>

C6_Witness ==
  /\ zop = "set"
  /\ zprev = <<-1>>
  /\ zarg = 3
  /\ zval = 2
  /\ zvalues = <<-1, 0, 0, 2>>

\* the sum over j in [0,p) of coeffs[j] * (the input at i-(j+1))
RECURSIVE PredictionSum(_, _, _, _)
PredictionSum(values, coeffs, i, p) ==
  IF p = 0 THEN 0
  ELSE PredictionSum(values, coeffs, i, p - 1)
         + coeffs[p] * ZeroPadded(values, i - p)

\* C7: linear_prediction(coeffs) of a signal of size s with p coefficients
\* returns a signal of size s+p whose element i is the sum over j in [0,p) of
\* coeffs[j] * get(i-(j+1)) of the input, and leaves the input unchanged; the
\* all-ones signal of length 6 with [0.8,0,0,-0.1] gives
\* [0,0.8,0.8,0.8,0.7,0.7,0.7,-0.1,-0.1,-0.1] (checked with tenfold coefficients).
C7_LinearPrediction ==
  /\ zop = "linear_prediction" =>
       LET s == Len(zprev)
           p == Len(zarg)
       IN  /\ Len(zret) = s + p
           /\ \A i \in 0..(s + p - 1) :
                zret[i + 1] = PredictionSum(zprev, zarg, i, p)
           /\ zvalues = zprev
  /\ linear_prediction(<<1, 1, 1, 1, 1, 1>>, <<8, 0, 0, -1>>)
       = <<0, 8, 8, 8, 7, 7, 7, -1, -1, -1>>

C7_Witness ==
  /\ zop = "linear_prediction"
  /\ zvalues = <<2, -1>>
  /\ zarg = <<-1, 2>>
  /\ zret = <<0, -2, 5, -2>>

(* C11, C12: construction *)

\* C11: new(coefficients, state) aborts whenever state is empty or
\* coefficients.len() + 1 differs from state.len(); otherwise it succeeds
\* and the generator holds exactly the coefficients and the state given (the
\* state until the first next() call), with the symbols zero for false and
\* one for true (until the first set_vals() call).
C11_NewChecksLengths ==
  ctor.fn = "new" =>
    IF Len(ctor.state) = 0 \/ Len(ctor.coefficients) + 1 # Len(ctor.state)
    THEN mls = "panic"
    ELSE /\ mls \in {"live", "moved"}
         /\ coefficients = ctor.coefficients
         /\ (calls = 0 => state = ctor.state)
         /\ (nsets = 0 => val_false = 0 /\ val_true = 1)

\* new was handed a non-empty state as long as its coefficients and aborted
C11_Witness ==
  /\ ctor.fn = "new"
  /\ ctor.coefficients = <<TRUE, FALSE>>
  /\ ctor.state = <<TRUE, FALSE>>
  /\ mls = "panic"

\* the taps the specification tabulates for an order: i stands for a_i,
\* which is coefficients[i-1] in Rust and coefficients[i] here
Taps(order) ==
  CASE order = 1 -> {}
    [] order = 2 -> {1}
    [] order = 3 -> {1}
    [] order = 4 -> {1}
    [] order = 5 -> {2}
    [] order = 6 -> {1}
    [] order = 7 -> {1}
    [] order = 8 -> {1, 5, 6}
    [] order = 9 -> {4}
    [] order = 10 -> {3}

\* C12: new_predefined(order, state) with an order m in 1..10 (and a state
\* of length m) builds a generator whose coefficients have length m-1 and
\* are true exactly at the tabulated taps; with any other order (0, or
\* greater than 10) it fails.
C12_PredefinedTable ==
  ctor.fn = "new_predefined" =>
    /\ ctor.order \notin 1..MaxOrder => mls = "panic"
    /\ (ctor.order \in 1..MaxOrder /\ Len(ctor.state) = ctor.order) =>
         /\ mls \in {"live", "moved"}
         /\ Len(coefficients) = ctor.order - 1
         /\ \A i \in 1..Len(coefficients) :
              coefficients[i] <=> i \in Taps(ctor.order)

\* new_predefined built the generator of order 8, the one with three taps
C12_Witness ==
  /\ ctor.fn = "new_predefined"
  /\ ctor.order = 8
  /\ mls = "live"
  /\ coefficients[1] /\ coefficients[5] /\ coefficients[6]

(* C17, C19: the generator's fields over its calls *)

\* a sequence of the default symbols (zero, one) with the symbols vf, vt
\* in their place
Relabel(x, vf, vt) == [i \in 1..Len(x) |-> IF x[i] = 1 THEN vt ELSE vf]

\* C17, the call itself: a set_vals() call changes the two output symbols,
\* to a pair it was handed, and leaves state and coefficients as they were.
C17_Step ==
  [][nsets' = nsets + 1 =>
       /\ <<val_false', val_true'>> \in ValPairs
       /\ state' = state
       /\ coefficients' = coefficients
       /\ mls' = mls]_vars

\* C17, the calls after it: next() returns, and to_vector() holds, the
\* current symbols along the bit sequence the same generator emits with the
\* default symbols 0 and 1.
C17_NextStep ==
  [][calls' = calls + 1 =>
       out'[calls'] =
         Relabel(FirstNext(1, state, coefficients, 0, 1), val_false, val_true)[1]]_vars

C17_Vector ==
  mls = "moved" =>
    vec = Relabel(to_vector(state, coefficients, 0, 1), val_false, val_true)

\* C17, the example: coefficients [true,false] and state [false,true,true]
\* emit 1,1,0,0,1,0,1, and 5,5,-5,-5,5,-5,5 after set_vals(-5, 5).
C17_Example ==
  (/\ mls = "moved"
   /\ ctor.fn = "new"
   /\ ctor.coefficients = <<TRUE, FALSE>>
   /\ ctor.state = <<FALSE, TRUE, TRUE>>
   /\ calls = 0) =>
    /\ nsets = 0 => vec = <<1, 1, 0, 0, 1, 0, 1>>
    /\ (nsets = 1 /\ val_false # val_true) => vec = <<5, 5, -5, -5, 5, -5, 5>>

\* C17: set_vals() changes only the two output symbols; next() and
\* to_vector() then emit the new symbols along the same bit sequence.
C17_SetVals == C17_Step /\ C17_NextStep /\ []C17_Vector /\ []C17_Example

\* set_vals(-5, 5) was called after two next() calls, and a third next()
\* returned the new symbol for false
C17_Witness ==
  /\ mls = "live"
  /\ nsets = 1
  /\ ctor.state = <<FALSE, TRUE, TRUE>>
  /\ ctor.coefficients = <<TRUE, FALSE>>
  /\ out = <<1, 1, -5>>

\* C19, the fields: a generator that was constructed has a state one longer
\* than its coefficients, never an empty one, and the coefficients that
\* reached new at its construction.
C19_Fields ==
  mls \in {"live", "moved"} =>
    /\ Len(state) = Len(coefficients) + 1
    /\ Len(state) > 0
    /\ coefficients = ctor.coefficients

\* C19, the calls: on a constructed generator only next() changes the
\* state, and it never changes its length.
C19_Step ==
  [][(mls = "live" /\ state' # state) =>
       /\ calls' = calls + 1
       /\ Len(state') = Len(state)]_vars

\* C19: in every state reachable from a successful new / new_predefined
\* through next() and set_vals(), state.len() = coefficients.len() + 1, the
\* state is not empty and the coefficients are those of the construction.
C19_LengthsKept == []C19_Fields /\ C19_Step

\* a generator of order 3 after set_vals() and next() calls that changed
\* its state
C19_Witness ==
  /\ mls = "live"
  /\ nsets = 1
  /\ calls = 3
  /\ Len(ctor.state) = 3
  /\ state # ctor.state

(* C15, C20: the zero padded signal over its calls *)

\* C15: ZeroPaddedSignal.set is idempotent: a set(idx, val) call that
\* follows the same set(idx, val) call leaves the signal as the first call
\* left it, with the same size() and the same elements; and so would a
\* repetition of any set call just made.
C15_SetTwice ==
  [][(zop = "set" /\ zop' = "set" /\ zarg' = zarg /\ zval' = zval) =>
       /\ Len(zvalues') = Len(zvalues)
       /\ zvalues' = zvalues]_vars

C15_SetAgain == zop = "set" => zps_set(zvalues, zarg, zval) = zvalues

C15_SetIdempotent == C15_SetTwice /\ []C15_SetAgain

\* set(3, 2) was called on a signal that a set(3, 2) call had extended and
\* left with 2 at index 3
C15_Witness ==
  /\ zop = "set"
  /\ zarg = 3
  /\ zval = 2
  /\ Len(zvalues) = 4
  /\ zprev = zvalues

\* C20: over any sequence of set, get, to_vector and linear_prediction calls
\* on a ZeroPaddedSignal, size() never decreases, and the value at an index
\* inside the prefix changes only through a set call on exactly that index.
C20_PrefixStable ==
  [][zs = "live" =>
       /\ Len(zvalues') >= Len(zvalues)
       /\ \A i \in 1..Len(zvalues) :
            zvalues'[i] # zvalues[i] => (zop' = "set" /\ zarg' = i - 1)]_vars

\* a set call changed the value at index 0 of a prefix of two values and
\* left its size and its other value
C20_Witness ==
  /\ zop = "set"
  /\ zarg = 0
  /\ Len(zprev) = 2
  /\ Len(zvalues) = 2
  /\ zvalues[1] # zprev[1]
  /\ zvalues[2] = zprev[2]

\* ZeroPaddedSignal.to_vector(start, end) returns get(start), ..., get(end)
\* in ascending index order, max(0, end-start+1) values (the half of C16
\* on the zero padded signal).
C16_ZpsToVector ==
  zop = "to_vector" =>
    LET start == zarg[1]
        end == zarg[2]
    IN  /\ Len(zret) = (IF end - start + 1 > 0 THEN end - start + 1 ELSE 0)
        /\ \A k \in 1..Len(zret) : zret[k] = ZeroPadded(zvalues, start + k - 1)
        /\ zvalues = zprev

(* C13, C14: autocorrelation *)

\* the sample at index i of the periodic signal, by wrap-around indexing
Wrapped(values, i) == values[(i % Len(values)) + 1]

\* the sum over i in [0,j) of get(i) * get(i+k), taken in f64 in ascending
\* order of i
RECURSIVE Correlation(_, _, _)
Correlation(values, k, j) ==
  IF j = 0 THEN 0
  ELSE Fadd(Correlation(values, k, j - 1),
            Fmul(Wrapped(values, j - 1), Wrapped(values, j - 1 + k)))

\* the sum over i in [0,j) of the squared samples, likewise
RECURSIVE SumSquares(_, _)
SumSquares(values, j) ==
  IF j = 0 THEN 0
  ELSE Fadd(SumSquares(values, j - 1), Fmul(values[j], values[j]))

\* C13: for a PeriodicSignal of length n > 0 autocorrelation returns a
\* signal of the same length n whose element at each lag k in [0,n) is
\* (1/n) times the sum over i in [0,n) of get(i) * get(i+k) with wrap-around
\* indexing (the f64 sum in ascending order of i, divided by n); r(0) is the
\* mean of the squared samples.
C13_Autocorrelation ==
  (pop = "autocorrelation" /\ Len(pvalues) > 0) =>
    LET n == Len(pvalues)
    IN  /\ Len(pret) = n
        /\ \A k \in 0..(n - 1) :
             pret[k + 1] = Fdiv(Correlation(pvalues, k, n), n)
        /\ pret[1] = Fdiv(SumSquares(pvalues, n), n)

\* the autocorrelation of [1,1,2,2] was taken: r(0) = 10/4
C13_Witness ==
  /\ pop = "autocorrelation"
  /\ pvalues = <<1, 1, 2, 2>>
  /\ pret[1] = [m |-> 5, e |-> -1]

\* the buffer b rotated by s: element i is b[(i+s) mod n]
Rotate(b, s) == [i \in 1..Len(b) |-> b[((i - 1 + s) % Len(b)) + 1]]

\* C14 as stated: for every buffer b of length n > 0 and every shift s, the
\* autocorrelation of the rotated buffer equals the autocorrelation of b at
\* every lag.
C14_RotationInvariant ==
  (pop = "autocorrelation" /\ Len(pvalues) > 0) =>
    \A s \in (-1)..Len(pvalues) :
      autocorrelation(Rotate(pvalues, s)) = pret

\* the exact sum over i in [0,j) of get(i) * get(i+k)
RECURSIVE ExactCorrelation(_, _, _)
ExactCorrelation(values, k, j) ==
  IF j = 0 THEN 0
  ELSE ExactCorrelation(values, k, j - 1)
         + Wrapped(values, j - 1) * Wrapped(values, j - 1 + k)

\* no partial sum of the accumulation of any lag is rounded
SumsExact(values) ==
  \A k \in 0..(Len(values) - 1) : \A j \in 0..Len(values) :
    Correlation(values, k, j) = ExactCorrelation(values, k, j)

\* the f64 sum of the same products get(i) * get(i+k), taken from i = s on:
\* over i in [s, s+j)
RECURSIVE RotatedCorrelation(_, _, _, _)
RotatedCorrelation(values, k, s, j) ==
  IF j = 0 THEN 0
  ELSE Fadd(RotatedCorrelation(values, k, s, j - 1),
            Fmul(Wrapped(values, j - 1 + s), Wrapped(values, j - 1 + s + k)))

\* C14, amended: the autocorrelation of the buffer rotated by s is, at every
\* lag k, the f64 sum of the same n products accumulated from i = s on,
\* divided by n; it equals the autocorrelation of b at every lag whenever no
\* partial sum of either accumulation is rounded.
C14_RotationUpToRounding ==
  (pop = "autocorrelation" /\ Len(pvalues) > 0) =>
    LET n == Len(pvalues)
    IN  \A s \in (-1)..n :
          LET rot == autocorrelation(Rotate(pvalues, s))
          IN  /\ Len(rot) = n
              /\ \A k \in 0..(n - 1) :
                   rot[k + 1] = Fdiv(RotatedCorrelation(pvalues, k, s, n), n)
              /\ (SumsExact(pvalues) /\ SumsExact(Rotate(pvalues, s))) =>
                   rot = pret

\* the autocorrelation of [0,1,2] was taken, a buffer that differs from its
\* rotations and whose sums are exact
C14_Witness ==
  /\ pop = "autocorrelation"
  /\ pvalues = <<0, 1, 2>>
  /\ SumsExact(pvalues)
  /\ SumsExact(Rotate(pvalues, 1))
  /\ Rotate(pvalues, 1) # pvalues
  /\ pret = autocorrelation(Rotate(pvalues, 1))

(* C16, C18: the periodic signal's to_vector and get *)

\* C16 on the periodic signal: to_vector(start, end) returns get(start),
\* get(start+1), ..., get(end) in ascending index order, max(0, end-start+1)
\* values, and an empty vector when start > end; it does not fail.
C16_ToVector ==
  pop \in {"to_vector", "to_vector_hang"} =>
    LET start == parg[1]
        end == parg[2]
    IN  /\ pop = "to_vector"
        /\ Len(pret) = (IF end - start + 1 > 0 THEN end - start + 1 ELSE 0)
        /\ \A k \in 1..Len(pret) :
             pret[k] = Wrapped(pvalues, start + k - 1)

\* the same on the non-empty buffers
C16_OnNonEmpty == Len(pvalues) > 0 => C16_ToVector

\* the buffer reads the same in both directions from index 0
Symmetric(b) == \A i \in 1..(Len(b) - 1) : b[i + 1] = b[Len(b) - i + 1]

AllFalse(st) == \A i \in 1..Len(st) : ~st[i]

\* C21, the fields: new succeeds for every length-consistent pair, whatever
\* the polynom and the state; constructed with an all-zero state the
\* register is all-zero still, and to_vector() holds 2^m-1 values, all of
\* them val_false.
C21_Fields ==
  (/\ ctor.fn = "new"
   /\ Len(ctor.state) > 0
   /\ Len(ctor.coefficients) + 1 = Len(ctor.state)) =>
    /\ mls \in {"live", "moved"}
    /\ AllFalse(ctor.state) =>
         /\ state = ctor.state
         /\ mls = "moved" =>
              /\ Len(vec) = 2 ^ Len(state) - 1
              /\ \A i \in 1..Len(vec) : vec[i] = val_false

\* C21, the calls: a next() call on an all-zero register leaves it all-zero
\* and returns val_false.
C21_Step ==
  [][(mls = "live" /\ AllFalse(state) /\ calls' = calls + 1) =>
       /\ state' = state
       /\ out'[calls'] = val_false]_vars

\* C21: neither the polynom nor the state is validated; from an all-zero
\* state the register stays all-zero after every next(), every next()
\* returns val_false and to_vector() returns 2^m-1 values equal to val_false.
C21_ZeroStateDegenerate == []C21_Fields /\ C21_Step

\* new([true,false], [false,false,false]), three next() calls, set_vals(-5, 5)
\* and to_vector()
C21_Witness ==
  /\ mls = "moved"
  /\ ctor.fn = "new"
  /\ ctor.coefficients = <<TRUE, FALSE>>
  /\ ctor.state = <<FALSE, FALSE, FALSE>>
  /\ calls = 3
  /\ out = <<0, 0, 0>>
  /\ vec = <<-5, -5, -5, -5, -5, -5, -5>>

(* C22: the cycle of a predefined generator *)

\* n successive next() calls on a register, from loop state s, collecting
\* the state each call leaves (run in two halves like to_vector_loop)
RECURSIVE states_run(_, _, _)
states_run(n, s, co) ==
  IF n = 0 THEN s
  ELSE IF n = 1
       THEN LET st == next(s.state, co, 0, 1).state
            IN  [state |-> st, seen |-> Append(s.seen, st)]
       ELSE LET h == n \div 2
                t == states_run(h, s, co)
            IN  IF Len(t.seen) = Len(s.seen) + h
                THEN states_run(n - h, t, co)
                ELSE t

\* the states the first n next() calls leave, from state st
StatesVisited(n, st, co) == states_run(n, [state |-> st, seen |-> <<>>], co).seen

\* C22, from the construction: the 2^m-1 next() calls that follow
\* new_predefined(m, state) with a non-zero state leave 2^m-1 different
\* states, none all-zero (so every non-zero state exactly once), the last of
\* them the initial state.
C22_Orbit ==
  (/\ mls = "live"
   /\ ctor.fn = "new_predefined"
   /\ calls = 0
   /\ ~AllFalse(state)) =>
    LET n == 2 ^ Len(state) - 1
        seen == StatesVisited(n, state, coefficients)
    IN  /\ Len(seen) = n
        /\ \A i \in 1..n : ~AllFalse(seen[i])
        /\ Cardinality({seen[i] : i \in 1..n}) = n
        /\ seen[n] = state

\* C22, along the calls made: the register is never all-zero, and is back
\* at its initial state after 2^m-1 calls and not before.
C22_Calls ==
  (/\ mls = "live"
   /\ ctor.fn = "new_predefined"
   /\ ~AllFalse(ctor.state)) =>
    LET n == 2 ^ Len(state) - 1
    IN  /\ ~AllFalse(state)
        /\ calls \in 1..(n - 1) => state # ctor.state
        /\ calls = n => state = ctor.state

\* C22: for each predefined order m in 1..10 and every non-zero initial
\* state of length m, successive next() calls never reach the all-zero
\* state and visit every one of the 2^m-1 non-zero states exactly once
\* before the register first returns to its initial state, after exactly
\* 2^m-1 calls.
C22_FullCycle == C22_Orbit /\ C22_Calls

\* the generator of order 3 started in [true,false,false] is back there
\* after seven next() calls
C22_Witness ==
  /\ mls = "live"
  /\ ctor.fn = "new_predefined"
  /\ ctor.order = 3
  /\ ctor.state = <<TRUE, FALSE, FALSE>>
  /\ calls = 7
  /\ state = ctor.state

(* C23: the minimal period *)

\* the shift by d maps the infinite signal onto itself: get(i) = get(i+d),
\* read through get at the indices -MaxPIdx..MaxPIdx (more than a whole
\* buffer on either side of 0)
IsShift(values, d) ==
  \A i \in (-MaxPIdx)..MaxPIdx :
    LET a == ps_get(values, i)
        b == ps_get(values, i + d)
    IN  ~a.hang /\ ~b.hang /\ a.v = b.v

\* C23: for every non-empty PeriodicSignal period() is the minimal period of
\* the infinite signal, the smallest positive d with get(i) = get(i+d) for
\* every i: no smaller shift, dividing size() or not, maps the signal onto
\* itself.
C23_MinimalPeriod ==
  (pop = "period" /\ Len(pvalues) > 0) =>
    /\ pret > 0
    /\ IsShift(pvalues, pret)
    /\ \A d \in 1..(pret - 1) : ~IsShift(pvalues, d)

\* period() returned 3 for [0,1,0]: the shift by 2, which does not divide
\* the size, maps the buffer's first two values onto its last two but not
\* the signal onto itself
C23_Witness ==
  /\ pop = "period"
  /\ pvalues = <<0, 1, 0>>
  /\ pret = 3
  /\ ~IsShift(pvalues, 2)

(* C24: the values of a linear prediction outside its vector *)

\* the zeros a vector of length n holds
Zeros(n) == [i \in 1..n |-> 0]

\* C24: the signal linear_prediction returns, read through its own get,
\* is the sum over j in [0,p) of coeffs[j] * in.get(i-(j+1)) at every index
\* i, also at i < 0 and at i >= size()+p; its value at 0 is zero; with no
\* coefficients it is size() zeros.
C24_NothingLost ==
  zop = "linear_prediction" =>
    LET s == Len(zvalues)
        p == Len(zarg)
    IN  /\ \A i \in (-(MaxZIdx + 2))..(s + p + MaxZIdx + 2) :
             zps_get(zret, i) = PredictionSum(zvalues, zarg, i, p)
        /\ zps_get(zret, 0) = 0
        /\ p = 0 => zret = Zeros(s)

\* a prediction with two coefficients, the last of them not zero, of a
\* signal of four values, the last of them not zero: the last value it
\* holds is not zero, and the sum one index further is
C24_Witness ==
  /\ zop = "linear_prediction"
  /\ Len(zarg) = 2
  /\ Len(zvalues) = 4
  /\ Len(zret) = 6
  /\ zret[6] # 0
  /\ PredictionSum(zvalues, zarg, 6, 2) = 0

====
